---- MODULE Spec2Model ----
(***************************************************************************)
(* Value Investing Screener (src/App.py): the ticker parse, the per-ticker  *)
(* fetch, compute_metrics, the run loop, the threshold filter and the       *)
(* export, as a state machine.                                              *)
(*                                                                          *)
(* Numbers are exact rationals n/d (d > 0, lowest terms); the code's floats *)
(* are modelled up to rounding.  A Python value is one of                   *)
(*   None, a number, a string (a sequence of characters).                   *)
(* An exception leaving a function is the value Raise.                      *)
(***************************************************************************)
EXTENDS Integers, Sequences, FiniteSets, TLC

VARIABLES tickers_input, tickers, thresholds, est_growth, aaa_rate,
          pc, i, cache, rows, df, df_filtered, error, exports, fetched,
          call, result

vars == <<tickers_input, tickers, thresholds, est_growth, aaa_rate,
          pc, i, cache, rows, df, df_filtered, error, exports, fetched,
          call, result>>

\* ------------------------------------------------------------------ bounds

\* Longest text typed into the ticker box.
MaxInputLen == 3

\* Most records a price-history lookup returns.
MaxHist == 2

\* ------------------------------------------------------------ Python values

None == [k |-> "none", n |-> 0, d |-> 1, s |-> <<>>]

Abs(x) == IF x < 0 THEN -x ELSE x

RECURSIVE GCD(_, _)
GCD(a, b) == IF b = 0 THEN a ELSE GCD(b, a % b)

\* The number n/d (d # 0), in lowest terms with a positive denominator.
Num(n, d) ==
    LET g == GCD(Abs(n), Abs(d))
        sg == IF d < 0 THEN -1 ELSE 1
    IN [k |-> "num", n |-> sg * (n \div g), d |-> sg * (d \div g), s |-> <<>>]

Str(chars) == [k |-> "str", n |-> 0, d |-> 1, s |-> chars]

\* np.inf and -np.inf, which only fillna introduces.
PosInf == [k |-> "inf", n |-> 1, d |-> 1, s |-> <<>>]
NegInf == [k |-> "inf", n |-> -1, d |-> 1, s |-> <<>>]

\* An exception propagating out of the evaluated expression.
Raise == [k |-> "raise", n |-> 0, d |-> 1, s |-> <<>>]

IsNum(x) == x.k = "num"
IsStr(x) == x.k = "str"

Add(x, y) == Num(x.n * y.d + y.n * x.d, x.d * y.d)
Sub(x, y) == Num(x.n * y.d - y.n * x.d, x.d * y.d)
Mul(x, y) == Num(x.n * y.n, x.d * y.d)
\* x / y on floats: ZeroDivisionError when y is zero.
Div(x, y) == IF y.n = 0 THEN Raise ELSE Num(x.n * y.d, x.d * y.n)

\* x <= y on finite numbers and the two infinities.
Leq(x, y) ==
    IF x.k = "inf" THEN x.n < 0 \/ (y.k = "inf" /\ y.n > 0)
    ELSE IF y.k = "inf" THEN y.n > 0
    ELSE x.n * y.d <= y.n * x.d

Digits == <<"0", "1", "2", "3", "4", "5", "6", "7", "8", "9">>

IsDigit(c) == \E j \in 1..10 : Digits[j] = c
DigitVal(c) == (CHOOSE j \in 1..10 : Digits[j] = c) - 1

RECURSIVE DecVal(_)
DecVal(chars) ==
    IF chars = <<>> THEN 0
    ELSE 10 * DecVal(SubSeq(chars, 1, Len(chars) - 1)) + DigitVal(chars[Len(chars)])

\* float(x) for a number or a string.  Of the strings the attribute domains
\* hold, those of decimal digits convert and the others are a ValueError.
Float(x) ==
    IF IsNum(x) THEN x
    ELSE IF IsStr(x) /\ x.s # <<>> /\ \A j \in 1..Len(x.s) : IsDigit(x.s[j])
         THEN Num(DecVal(x.s), 1)
    ELSE Raise

\* Python truthiness of a value: None, 0 and "" are false.
Truthy(x) ==
    CASE x.k = "none" -> FALSE
      [] x.k = "num" -> x.n # 0
      [] x.k = "str" -> x.s # <<>>
      [] OTHER -> TRUE

\* dict.get(key, None) on a mapping that may lack the key.
Get(m, key) == IF key \in DOMAIN m THEN m[key] ELSE None

\* ---------------------------------------------------------- compute_metrics

\* Lines 61-67: debtToEquity coerced with float() inside try/except.
DebtToEquity(ri) ==
    LET dte == Get(ri, "debtToEquity")
    IN IF dte = None THEN None
       ELSE IF Float(dte) = Raise THEN None ELSE Float(dte)

\* Lines 68-69: float(dy) * 100, outside any try.
DividendYield(ri) ==
    LET dy == Get(ri, "dividendYield")
    IN IF dy = None THEN None
       ELSE IF Float(dy) = Raise THEN Raise
       ELSE Mul(Float(dy), Num(100, 1))

\* Lines 74-80: float(fcf) / float(mcap) * 100 inside try/except.
FCFYield(ri) ==
    LET fcf == Get(ri, "freeCashflow")
        mcap == Get(ri, "marketCap")
    IN IF fcf # None /\ Truthy(mcap)
       THEN IF Float(fcf) = Raise \/ Float(mcap) = Raise THEN None
            ELSE IF Div(Float(fcf), Float(mcap)) = Raise THEN None
            ELSE Mul(Div(Float(fcf), Float(mcap)), Num(100, 1))
       ELSE None

\* Line 83: the guard of the Graham branch.
GrahamGuard(eps, rate) == eps # None /\ rate.n # 0 /\ rate.n > 0

\* GrahamFormula with the growth rate taken as it is, not divided by 100.
GrahamFormulaGrowthNotScaled(eps, growth, rate) ==
    IF ~IsNum(eps) THEN Raise
    ELSE Div(Mul(Mul(eps, Add(Num(17, 2), Mul(Num(2, 1), growth))), Num(22, 5)),
             Div(rate, Num(100, 1)))

\* Line 84: eps * (8.5 + 2 * (est_growth / 100.0)) * 4.4 / (aaa_rate / 100.0);
\* a string eps times a float is a TypeError.
GrahamFormula(eps, growth, rate) ==
    IF ~IsNum(eps) THEN Raise
    ELSE Div(Mul(Mul(eps, Add(Num(17, 2), Mul(Num(2, 1), Div(growth, Num(100, 1))))),
                 Num(22, 5)),
             Div(rate, Num(100, 1)))

\* Line 87: (graham - price) / graham * 100.
MosFormula(graham, price) ==
    IF Div(Sub(graham, price), graham) = Raise THEN Raise
    ELSE Mul(Div(Sub(graham, price), graham), Num(100, 1))

\* Lines 81-96: the pair <<Graham Value, Margin of Safety>>.
GrahamAndMos(ri, price, growth, rate) ==
    LET eps == Get(ri, "trailingEps")
    IN IF GrahamGuard(eps, rate)
       THEN LET graham == GrahamFormula(eps, growth, rate)
            IN IF graham = Raise THEN <<None, None>>
               ELSE IF Truthy(price) /\ Truthy(graham)
                    THEN IF MosFormula(graham, price) = Raise THEN <<None, None>>
                         ELSE <<graham, MosFormula(graham, price)>>
                    ELSE <<graham, None>>
       ELSE <<None, None>>

\* Lines 54-99: the row, or Raise when the dividend-yield conversion throws.
compute_metrics(ticker, info_raw, price, growth, rate) ==
    LET ri == info_raw.raw
        gm == GrahamAndMos(ri, price, growth, rate)
    IN IF DividendYield(ri) = Raise THEN Raise
       ELSE [Ticker |-> ticker,
             Price |-> price,
             PE |-> Get(ri, "trailingPE"),
             PB |-> Get(ri, "priceToBook"),
             DebtEquity |-> DebtToEquity(ri),
             DividendYieldPct |-> DividendYield(ri),
             FreeCashflow |-> Get(ri, "freeCashflow"),
             MarketCap |-> Get(ri, "marketCap"),
             FCFYieldPct |-> FCFYield(ri),
             GrahamValue |-> gm[1],
             MarginOfSafety |-> gm[2],
             Sector |-> Get(ri, "sector"),
             Industry |-> Get(ri, "industry")]

\* ------------------------------------------------------------ fetch_yf_info

\* The mapping with no attribute.
EmptyRaw == [key \in {} |-> None]

\* Lines 39-42: raw is tk.info, or {} when the lookup raised.
FetchRaw(infoResult) == IF infoResult.ok THEN infoResult.val ELSE EmptyRaw

\* FetchPrice reading the first record, iloc[0], instead of the last.
FetchPriceFirstClose(histResult) ==
    IF histResult.ok /\ histResult.close # <<>>
    THEN Float(histResult.close[1])
    ELSE None

\* Lines 43-49: the last Close of tk.history(period="1d"), or None when the
\* lookup raised or returned no record.
FetchPrice(histResult) ==
    IF histResult.ok /\ histResult.close # <<>>
    THEN Float(histResult.close[Len(histResult.close)])
    ELSE None

\* Lines 36-52.  infoResult is what tk.info did, histResult what
\* tk.history(period="1d") did: [ok |-> FALSE] is an exception; hist.close is
\* the Close column of the records returned, oldest first.
fetch_yf_info(infoResult, histResult) ==
    [raw |-> FetchRaw(infoResult), price |-> FetchPrice(histResult)]

\* -------------------------------------------------------------- ticker parse

IsSpace(c) == c = " "

RECURSIVE LStrip(_)
LStrip(s) == IF s # <<>> /\ IsSpace(Head(s)) THEN LStrip(Tail(s)) ELSE s

RECURSIVE RStrip(_)
RStrip(s) ==
    IF s # <<>> /\ IsSpace(s[Len(s)]) THEN RStrip(SubSeq(s, 1, Len(s) - 1)) ELSE s

\* str.strip()
Strip(s) == RStrip(LStrip(s))

UpperChar(c) == IF c = "a" THEN "A" ELSE IF c = "b" THEN "B" ELSE c

\* str.upper()
Upper(s) == [j \in 1..Len(s) |-> UpperChar(s[j])]

\* str.split(","): the pieces between commas, empty pieces kept.
RECURSIVE Split(_, _)
Split(s, cur) ==
    IF s = <<>> THEN <<cur>>
    ELSE IF Head(s) = "," THEN <<cur>> \o Split(Tail(s), <<>>)
    ELSE Split(Tail(s), Append(cur, Head(s)))

RECURSIVE KeepNonBlank(_)
KeepNonBlank(parts) ==
    IF parts = <<>> THEN <<>>
    ELSE IF Strip(Head(parts)) # <<>>
         THEN <<Upper(Strip(Head(parts)))>> \o KeepNonBlank(Tail(parts))
    ELSE KeepNonBlank(Tail(parts))

\* ParseTickers without the "if t.strip()" that discards empty entries.
ParseTickersKeepsBlank(text) ==
    [j \in 1..Len(Split(text, <<>>)) |-> Upper(Strip(Split(text, <<>>)[j]))]

\* Line 33: [t.strip().upper() for t in tickers_input.split(",") if t.strip()]
ParseTickers(text) == KeepNonBlank(Split(text, <<>>))

\* -------------------------------------------------- DataFrame and the filter

NoTable == [built |-> FALSE, columns |-> {}, data |-> <<>>]

\* Line 114: the row appended when fetch or compute raised.
FallbackRow(tk) == [Ticker |-> tk, Price |-> None]

\* Line 116: pd.DataFrame(rows): the columns are the union of the rows' keys,
\* a key a row lacks is a missing value in that row.
DataFrame(rs) ==
    LET cols == UNION {DOMAIN rs[j] : j \in 1..Len(rs)}
    IN [built |-> TRUE,
        columns |-> cols,
        data |-> [j \in 1..Len(rs) |->
                    [c \in cols |-> IF c \in DOMAIN rs[j] THEN rs[j][c] ELSE None]]]

\* Series.fillna(fill)
fillna(v, fill) == IF v = None THEN fill ELSE v

\* MaxClause with the missing value filled by -np.inf: an unknown passes.
MaxClauseUnknownPasses(v, max) == Leq(fillna(v, NegInf), max)

\* Lines 123, 125, 127: df[col].fillna(np.inf) <= max, for one cell.
MaxClause(v, max) == Leq(fillna(v, PosInf), max)

\* MinClause with the missing value filled by 0.
MinClauseZeroFill(v, min) == Leq(min, fillna(v, Num(0, 1)))

\* Lines 129, 131, 133: df[col].fillna(-np.inf) >= min, for one cell.
MinClause(v, min) == Leq(min, fillna(v, NegInf))

FilterColumns ==
    {"PE", "PB", "DebtEquity", "DividendYieldPct", "FCFYieldPct", "MarginOfSafety"}

\* Lines 123-133 raise: KeyError for a column the frame lacks, TypeError when
\* a cell of the column is a string compared with a float.
FilterRaises(frame) ==
    \E c \in FilterColumns :
        \/ c \notin frame.columns
        \/ \E j \in 1..Len(frame.data) : IsStr(frame.data[j][c])

\* Lines 121-133: the mask of one row.
Mask(r, th) ==
    /\ MaxClause(r.PE, th.pe_max)
    /\ MaxClause(r.PB, th.pb_max)
    /\ MaxClause(r.DebtEquity, th.de_max)
    /\ MinClause(r.DividendYieldPct, th.div_yield_min)
    /\ MinClause(r.FCFYieldPct, th.fcf_yield_min)
    /\ MinClause(r.MarginOfSafety, th.min_mos)

\* Line 135: df[mask].copy()
ApplyMask(frame, th) ==
    [built |-> TRUE,
     columns |-> frame.columns,
     data |-> SelectSeq(frame.data, LAMBDA r : Mask(r, th))]

\* ------------------------------------------------------------- input domains

\* Characters of the ticker box.
InputChars == {",", " ", "a"}

RECURSIVE TextsOfLen(_)
TextsOfLen(len) ==
    IF len = 0 THEN {<<>>}
    ELSE {Append(s, c) : s \in TextsOfLen(len - 1), c \in InputChars}

Texts == UNION {TextsOfLen(len) : len \in 0..MaxInputLen}

\* Lines 18-22, 28: the sidebar's default thresholds.
DefaultThresholds ==
    [pe_max |-> Num(15, 1), pb_max |-> Num(3, 1), de_max |-> Num(100, 1),
     div_yield_min |-> Num(0, 1), fcf_yield_min |-> Num(0, 1),
     min_mos |-> Num(20, 1)]

\* The defaults, and the defaults with one threshold edited.
ThresholdPool ==
    {DefaultThresholds}
    \cup {[DefaultThresholds EXCEPT !.pe_max = Num(5, 1)]}
    \cup {[DefaultThresholds EXCEPT !.div_yield_min = v] : v \in {Num(-1, 1), Num(1, 1)}}
    \cup {[DefaultThresholds EXCEPT !.fcf_yield_min = v] : v \in {Num(-1, 1), Num(20, 1)}}
    \cup {[DefaultThresholds EXCEPT !.min_mos = v] : v \in {Num(-5, 1), Num(0, 1)}}

\* A mapping given as a record whose None fields are the absent attributes.
Present(rec) == [key \in {x \in DOMAIN rec : rec[x] # None} |-> rec[key]]

\* A ticker with every attribute present.
BaseRaw ==
    [trailingPE |-> Num(10, 1), priceToBook |-> Num(2, 1),
     debtToEquity |-> Num(50, 1), dividendYield |-> Num(1, 50),
     freeCashflow |-> Num(10, 1), marketCap |-> Num(100, 1),
     trailingEps |-> Num(5, 1), sector |-> Str(<<"T">>), industry |-> Str(<<"S">>)]

NotANumber == Str(<<"N", "/", "A">>)

\* The fundamentals the run draws from: the complete ticker and the complete
\* ticker with one attribute absent, changed, or not a number.
RunRaws ==
    {Present(BaseRaw)}
    \cup {Present([BaseRaw EXCEPT !.trailingPE = v]) : v \in {None, Num(20, 1), NotANumber}}
    \cup {Present([BaseRaw EXCEPT !.priceToBook = Num(5, 1)])}
    \cup {Present([BaseRaw EXCEPT !.debtToEquity = Num(200, 1)])}
    \cup {Present([BaseRaw EXCEPT !.dividendYield = v]) : v \in {None, NotANumber}}
    \cup {Present([BaseRaw EXCEPT !.freeCashflow = None])}
    \cup {Present([BaseRaw EXCEPT !.trailingEps = Num(-5, 1)])}

Failed == [ok |-> FALSE]

RunInfoResults == {Failed} \cup {[ok |-> TRUE, val |-> m] : m \in RunRaws}

\* The price lookups the run draws from: an exception, no record, one record.
RunHistResults ==
    {Failed, [ok |-> TRUE, close |-> <<>>], [ok |-> TRUE, close |-> <<Num(100, 1)>>]}

\* No call of the functions checked on their own (SpecFetch, SpecCompute).
NoCall == [fn |-> "none"]

\* --------------------------------------------------------------- the run

est_growth_default == Num(5, 1)
aaa_rate_default == Num(4, 1)

Init ==
    /\ tickers_input \in Texts
    /\ tickers = ParseTickers(tickers_input)
    /\ thresholds \in ThresholdPool
    /\ est_growth = est_growth_default
    /\ aaa_rate = aaa_rate_default
    /\ pc = "idle"
    /\ i = 0
    /\ cache = [tk \in {} |-> None]
    /\ rows = <<>>
    /\ df = NoTable
    /\ df_filtered = NoTable
    /\ error = FALSE
    /\ exports = <<>>
    /\ fetched = <<>>
    /\ call = NoCall
    /\ result = NoCall

\* Lines 101-107: the button is pressed.
RunButton ==
    /\ pc = "idle"
    /\ IF tickers = <<>>
       THEN /\ error' = TRUE
            /\ pc' = "error"
       ELSE /\ error' = FALSE
            /\ pc' = "loop"
    /\ rows' = <<>>
    /\ i' = 0
    /\ UNCHANGED <<tickers_input, tickers, thresholds, est_growth, aaa_rate,
                   cache, df, df_filtered, exports, fetched, call, result>>

\* Lines 111-114: compute on a fetched info; the fallback row when it raises.
RowOf(tk, info) ==
    IF compute_metrics(tk, info, info.price, est_growth, aaa_rate) = Raise
    THEN FallbackRow(tk)
    ELSE compute_metrics(tk, info, info.price, est_growth, aaa_rate)

\* AppendRow with an except branch that appends nothing.
AppendRowSkipsFailed(rs, tk, info) ==
    IF DOMAIN RowOf(tk, info) = {"Ticker", "Price"} THEN rs
    ELSE Append(rs, RowOf(tk, info))

\* Lines 109-114: rows.append, of the computed row or of the fallback row.
AppendRow(rs, tk, info) == Append(rs, RowOf(tk, info))

\* Lines 108-115: one iteration of the loop.  st.cache_data (line 35) answers
\* a ticker it holds without a lookup, and stores what a call returns.
LoopIteration ==
    /\ pc = "loop"
    /\ i < Len(tickers)
    /\ LET tk == tickers[i + 1]
       IN IF tk \in DOMAIN cache
          THEN /\ rows' = AppendRow(rows, tk, cache[tk])
               /\ cache' = cache
          ELSE \E infoResult \in RunInfoResults, histResult \in RunHistResults :
                 LET info == fetch_yf_info(infoResult, histResult)
                 IN /\ rows' = AppendRow(rows, tk, info)
                    /\ cache' = [t \in DOMAIN cache \cup {tk} |->
                                   IF t = tk THEN info ELSE cache[t]]
    /\ fetched' = Append(fetched, tickers[i + 1])
    /\ i' = i + 1
    /\ UNCHANGED <<tickers_input, tickers, thresholds, est_growth, aaa_rate,
                   pc, df, df_filtered, error, exports, call, result>>

\* Line 35, ttl=3600: a cached entry expires.
Expire ==
    /\ pc = "loop"
    /\ \E tk \in DOMAIN cache :
         cache' = [t \in DOMAIN cache \ {tk} |-> cache[t]]
    /\ UNCHANGED <<tickers_input, tickers, thresholds, est_growth, aaa_rate,
                   pc, i, rows, df, df_filtered, error, exports, fetched,
                   call, result>>

\* Lines 116-137: the frame is built and filtered; an exception of the filter
\* ends the script.
ApplyFilters ==
    /\ pc = "loop"
    /\ i = Len(tickers)
    /\ df' = DataFrame(rows)
    /\ IF FilterRaises(DataFrame(rows))
       THEN /\ pc' = "fault"
            /\ df_filtered' = df_filtered
       ELSE /\ pc' = "filtered"
            /\ df_filtered' = ApplyMask(DataFrame(rows), thresholds)
    /\ UNCHANGED <<tickers_input, tickers, thresholds, est_growth, aaa_rate,
                   i, cache, rows, error, exports, fetched, call, result>>

\* Lines 139-151: the two download payloads, both of df_filtered.
Export ==
    /\ pc = "filtered"
    /\ exports' = <<[file_name |-> "screener.csv", data |-> df_filtered.data],
                    [file_name |-> "screener.xlsx", data |-> df_filtered.data]>>
    /\ pc' = "done"
    /\ UNCHANGED <<tickers_input, tickers, thresholds, est_growth, aaa_rate,
                   i, cache, rows, df, df_filtered, error, fetched, call, result>>

Next == RunButton \/ LoopIteration \/ Expire \/ ApplyFilters \/ Export

Spec == Init /\ [][Next]_vars

\* ------------------------------------------------ fetch_yf_info on its own

RECURSIVE ClosesOfLen(_)
ClosesOfLen(len) ==
    IF len = 0 THEN {<<>>}
    ELSE {Append(s, c) : s \in ClosesOfLen(len - 1), c \in {Num(50, 1), Num(100, 1)}}

\* What a price lookup can do: raise, or return up to MaxHist records.
HistResults ==
    {Failed}
    \cup {[ok |-> TRUE, close |-> s] : s \in UNION {ClosesOfLen(len) : len \in 0..MaxHist}}

\* The variables of the run, at rest while one function is called.
RunAtRest ==
    /\ tickers_input = <<>>
    /\ tickers = <<>>
    /\ thresholds = DefaultThresholds
    /\ i = 0
    /\ cache = [tk \in {} |-> None]
    /\ rows = <<>>
    /\ df = NoTable
    /\ df_filtered = NoTable
    /\ error = FALSE
    /\ exports = <<>>
    /\ fetched = <<>>

InitFetch ==
    /\ RunAtRest
    /\ est_growth = est_growth_default
    /\ aaa_rate = aaa_rate_default
    /\ pc = "call"
    /\ \E infoResult \in RunInfoResults, histResult \in HistResults :
         call = [fn |-> "fetch_yf_info", info |-> infoResult, hist |-> histResult]
    /\ result = NoCall

\* fetch_yf_info(ticker) returns.
FetchCall ==
    /\ pc = "call"
    /\ call.fn = "fetch_yf_info"
    /\ result' = fetch_yf_info(call.info, call.hist)
    /\ pc' = "returned"
    /\ UNCHANGED <<tickers_input, tickers, thresholds, est_growth, aaa_rate,
                   i, cache, rows, df, df_filtered, error, exports, fetched, call>>

SpecFetch == InitFetch /\ [][FetchCall]_vars

\* ---------------------------------------------- compute_metrics on its own

\* The fundamentals compute_metrics is called on: every combination of the
\* attributes its derivations read; the attributes it copies are all present
\* or all absent.
ComputeRaws ==
    {Present([trailingPE |-> pe,
              priceToBook |-> IF pe = None THEN None ELSE Num(2, 1),
              debtToEquity |-> dte, dividendYield |-> dy,
              freeCashflow |-> fcf, marketCap |-> mcap, trailingEps |-> eps,
              sector |-> IF pe = None THEN None ELSE Str(<<"T">>),
              industry |-> IF pe = None THEN None ELSE Str(<<"S">>)]) :
        pe \in {None, Num(10, 1)},
        dte \in {None, Num(50, 1), Str(<<"5", "0">>), NotANumber},
        dy \in {None, Num(1, 50), NotANumber},
        fcf \in {None, Num(10, 1), Num(-10, 1), NotANumber},
        mcap \in {None, Num(100, 1), Num(0, 1), Str(<<"0">>), NotANumber},
        eps \in {None, Num(5, 1), Num(0, 1), Num(-5, 1), NotANumber}}

ComputePrices == {None, Num(0, 1), Num(100, 1), Num(5000, 1)}
ComputeGrowths == {Num(5, 1), Num(-425, 1)}
ComputeRates == {Num(-4, 1), Num(0, 1), Num(4, 1)}

InitCompute ==
    /\ RunAtRest
    /\ est_growth \in ComputeGrowths
    /\ aaa_rate \in ComputeRates
    /\ pc = "call"
    /\ \E raw \in ComputeRaws, price \in ComputePrices :
         call = [fn |-> "compute_metrics", ticker |-> <<"A">>,
                 info |-> [raw |-> raw, price |-> price]]
    /\ result = NoCall

\* compute_metrics(tk, info, info.get('price'), est_growth, aaa_rate) returns
\* or raises.
ComputeCall ==
    /\ pc = "call"
    /\ call.fn = "compute_metrics"
    /\ result' = compute_metrics(call.ticker, call.info, call.info.price,
                                 est_growth, aaa_rate)
    /\ pc' = "returned"
    /\ UNCHANGED <<tickers_input, tickers, thresholds, est_growth, aaa_rate,
                   i, cache, rows, df, df_filtered, error, exports, fetched, call>>

SpecCompute == InitCompute /\ [][ComputeCall]_vars

\* ------------------------------------------------------------------ claims

\* A returned call of compute_metrics or fetch_yf_info.
Returned(fn) == pc = "returned" /\ call.fn = fn

IsRow(r) == "Ticker" \in DOMAIN r

\* A field that is unknown or a finite number.
UnknownOrFinite(v) == v = None \/ (IsNum(v) /\ v.d > 0)

\* The attributes of the call's fundamentals, None when absent.
Attr(key) == Get(call.info.raw, key)

NumericAttrs ==
    {"trailingPE", "priceToBook", "debtToEquity", "dividendYield",
     "freeCashflow", "marketCap", "trailingEps"}

\* Complete fundamentals: every attribute and the price present, numbers
\* where numbers are expected.
CompleteCall ==
    /\ Returned("compute_metrics")
    /\ \A key \in NumericAttrs : IsNum(Attr(key))
    /\ Attr("sector") # None /\ Attr("industry") # None
    /\ IsNum(call.info.price)

\* v = raw yield x 100
IsDividendYieldOf(v, dy) == IsNum(v) /\ v.n * dy.d = 100 * dy.n * v.d

\* v = fcf / mcap x 100
IsFCFYieldOf(v, fcf, mcap) ==
    IsNum(v) /\ mcap.n # 0 /\ v.n * mcap.n * fcf.d = 100 * fcf.n * mcap.d * v.d

\* v = eps x (8.5 + 2 x growth/100) x 4.4 / (rate/100)
IsGrahamOf(v, eps, growth, rate) ==
    /\ IsNum(v) /\ rate.n # 0
    /\ v.n * eps.d * 100 * growth.d * rate.n
         = v.d * eps.n * (850 * growth.d + 2 * growth.n) * 440 * rate.d

\* v = (graham - price) / graham x 100
IsMosOf(v, graham, price) ==
    /\ IsNum(v) /\ IsNum(graham) /\ graham.n # 0
    /\ v.n * graham.n * price.d
         = v.d * 100 * (graham.n * price.d - price.n * graham.d)

\* C7 as claimed: for complete fundamentals, whatever the numbers (zero and
\* negative ones included), compute_metrics returns a row whose Dividend
\* Yield, FCF Yield, Graham Value and Margin of Safety are all known and
\* equal to their formulas (taken with a positive discount rate, as in the
\* claim's own example).
C7_AllDerivedKnownForComplete ==
    (CompleteCall /\ aaa_rate.n > 0) =>
        /\ IsRow(result)
        /\ IsDividendYieldOf(result.DividendYieldPct, Attr("dividendYield"))
        /\ IsFCFYieldOf(result.FCFYieldPct, Attr("freeCashflow"), Attr("marketCap"))
        /\ IsGrahamOf(result.GrahamValue, Attr("trailingEps"), est_growth, aaa_rate)
        /\ IsMosOf(result.MarginOfSafety, result.GrahamValue, call.info.price)

\* C7 amended: for complete fundamentals compute_metrics returns a row whose
\* Dividend Yield is raw yield x 100; whose FCF Yield is FreeCashFlow /
\* MarketCap x 100 when MarketCap is not zero; whose Graham Value is
\* EPS x (8.5 + 2 x growth/100) x 4.4 / (rate/100) when the discount rate is
\* positive; and whose Margin of Safety is (Graham - Price) / Graham x 100
\* when moreover neither Graham Value nor Price is zero.  EPS=5, growth=5,
\* rate=4 gives Graham Value 4730.
C7_DerivedMatchFormulas ==
    CompleteCall =>
        /\ IsRow(result)
        /\ IsDividendYieldOf(result.DividendYieldPct, Attr("dividendYield"))
        /\ Attr("marketCap").n # 0 =>
             IsFCFYieldOf(result.FCFYieldPct, Attr("freeCashflow"), Attr("marketCap"))
        /\ aaa_rate.n > 0 =>
             IsGrahamOf(result.GrahamValue, Attr("trailingEps"), est_growth, aaa_rate)
        /\ (aaa_rate.n > 0 /\ call.info.price.n # 0 /\ result.GrahamValue.n # 0) =>
             IsMosOf(result.MarginOfSafety, result.GrahamValue, call.info.price)
        /\ (Attr("trailingEps") = Num(5, 1) /\ est_growth = Num(5, 1)
              /\ aaa_rate = Num(4, 1)) => result.GrahamValue = Num(4730, 1)

\* C7 witness: the complete ticker with EPS=5, growth=5, rate=4, Price=100 has
\* been computed: Graham Value 4730, Margin of Safety 46300/473 (97.89).
C7_Witness ==
    /\ CompleteCall
    /\ Attr("trailingEps") = Num(5, 1) /\ Attr("marketCap") = Num(100, 1)
    /\ result.GrahamValue = Num(4730, 1)
    /\ result.MarginOfSafety = Num(46300, 473)
    /\ result.FCFYieldPct # None

\* The rules of C8 on a row compute_metrics returned.
DerivedRulesHold(r) ==
    /\ UnknownOrFinite(r.DividendYieldPct)
    /\ UnknownOrFinite(r.FCFYieldPct)
    /\ UnknownOrFinite(r.GrahamValue)
    /\ UnknownOrFinite(r.MarginOfSafety)
    /\ r.FCFYieldPct # None =>
         /\ Attr("freeCashflow") # None /\ Attr("marketCap") # None
         /\ IsNum(Float(Attr("marketCap"))) /\ Float(Attr("marketCap")).n # 0
    /\ r.GrahamValue # None => (Attr("trailingEps") # None /\ aaa_rate.n > 0)
    /\ r.MarginOfSafety # None =>
         /\ Attr("trailingEps") # None /\ aaa_rate.n > 0
         /\ call.info.price # None
         /\ IsNum(r.GrahamValue) /\ r.GrahamValue.n # 0

\* C8 as claimed: no input makes compute_metrics fault, and in the row it
\* returns every derived field is unknown or a finite number, unknown
\* whenever an operand is missing or a divisor is zero.
C8_NoFaultAndUnknownRules ==
    Returned("compute_metrics") => (IsRow(result) /\ DerivedRulesHold(result))

\* The part of C8 the code keeps: the rules hold of every row returned.
C8_RulesOnReturnedRows ==
    (Returned("compute_metrics") /\ IsRow(result)) => DerivedRulesHold(result)

\* The row fields each attribute feeds.
FieldsOf(key) ==
    CASE key = "trailingPE" -> {"PE"}
      [] key = "priceToBook" -> {"PB"}
      [] key = "debtToEquity" -> {"DebtEquity"}
      [] key = "dividendYield" -> {"DividendYieldPct"}
      [] key = "freeCashflow" -> {"FreeCashflow", "FCFYieldPct"}
      [] key = "marketCap" -> {"MarketCap", "FCFYieldPct"}
      [] key = "trailingEps" -> {"GrahamValue", "MarginOfSafety"}
      [] OTHER -> {}

RowFields ==
    {"Ticker", "Price", "PE", "PB", "DebtEquity", "DividendYieldPct",
     "FreeCashflow", "MarketCap", "FCFYieldPct", "GrahamValue",
     "MarginOfSafety", "Sector", "Industry"}

\* The call's fundamentals without one attribute.
Without(key) ==
    [raw |-> [x \in DOMAIN call.info.raw \ {key} |-> call.info.raw[x]],
     price |-> call.info.price]

\* C4: compute_metrics never fails, and an attribute that cannot be converted
\* makes unknown only the fields derived from it: every other field of the
\* row is what it is without that attribute.
C4_NeverFailsFieldsIndependent ==
    Returned("compute_metrics") =>
        /\ IsRow(result)
        /\ \A key \in NumericAttrs :
             (IsStr(Attr(key)) /\ Float(Attr(key)) = Raise) =>
                 LET clean == compute_metrics(call.ticker, Without(key),
                                              call.info.price, est_growth, aaa_rate)
                 IN IsRow(clean) =>
                      \A f \in RowFields \ FieldsOf(key) : result[f] = clean[f]

FilterDone == pc \in {"filtered", "done"}

\* value <= max, an unknown value counting as +infinity.
KnownLeq(v, max) == IsNum(v) /\ v.n * max.d <= max.n * v.d

\* value >= min, an unknown value counting as -infinity.
KnownGeq(v, min) == IsNum(v) /\ v.n * min.d >= min.n * v.d

\* The six clauses of the filter contract.
Survives(r, th) ==
    /\ KnownLeq(r.PE, th.pe_max)
    /\ KnownLeq(r.PB, th.pb_max)
    /\ KnownLeq(r.DebtEquity, th.de_max)
    /\ KnownGeq(r.DividendYieldPct, th.div_yield_min)
    /\ KnownGeq(r.FCFYieldPct, th.fcf_yield_min)
    /\ KnownGeq(r.MarginOfSafety, th.min_mos)

\* The positions of the ResultTable rows that satisfy the six clauses.
Kept == {j \in 1..Len(df.data) : Survives(df.data[j], thresholds)}

\* The m-th of them, counting from the top of the table.
NthKept(m) == CHOOSE j \in Kept : Cardinality({x \in Kept : x <= j}) = m

\* C1: the FilteredTable is exactly the rows of the ResultTable that satisfy
\* all six clauses (an unknown value compared as +infinity under a maximum,
\* as -infinity under a minimum), in their original order; and the
\* ResultTable still holds every row the run built, unchanged.
C1_FilteredIsExactSubsequence ==
    FilterDone =>
        /\ Len(df_filtered.data) = Cardinality(Kept)
        /\ \A m \in 1..Len(df_filtered.data) : df_filtered.data[m] = df.data[NthKept(m)]
        /\ Len(df.data) = Len(rows)
        /\ \A j \in 1..Len(rows) : \A c \in DOMAIN rows[j] : df.data[j][c] = rows[j][c]

\* C1 witness: a table of two rows was filtered; the first, whose P/E is
\* unknown, was dropped and the second was kept.
C1_Witness ==
    /\ FilterDone
    /\ Len(df.data) = 2
    /\ df.data[1].PE = None
    /\ Len(df_filtered.data) = 1
    /\ df_filtered.data[1] = df.data[2]

C3_RunNeverFaults ==
    /\ pc # "fault"
    /\ pc = "done" => (df.built /\ df_filtered.built)

\* value >= min as C6 claims it: an unknown value passes a minimum that is
\* zero or negative and fails a positive one.
ClaimedGeq(v, min) == IF v = None THEN min.n <= 0 ELSE KnownGeq(v, min)

\* C6 as claimed: a row with an unknown Dividend Yield, FCF Yield or Margin
\* of Safety passes that clause when its minimum is zero or negative and
\* fails it when its minimum is positive, so it is in the FilteredTable iff
\* the clauses read that way all hold.
C6_UnknownPassesNonPositiveMin ==
    FilterDone =>
        \A j \in 1..Len(df.data) :
            LET r == df.data[j]
            IN (r.DividendYieldPct = None \/ r.FCFYieldPct = None
                  \/ r.MarginOfSafety = None) =>
                 ((\E m \in 1..Len(df_filtered.data) : df_filtered.data[m] = r)
                    <=> /\ KnownLeq(r.PE, thresholds.pe_max)
                        /\ KnownLeq(r.PB, thresholds.pb_max)
                        /\ KnownLeq(r.DebtEquity, thresholds.de_max)
                        /\ ClaimedGeq(r.DividendYieldPct, thresholds.div_yield_min)
                        /\ ClaimedGeq(r.FCFYieldPct, thresholds.fcf_yield_min)
                        /\ ClaimedGeq(r.MarginOfSafety, thresholds.min_mos))

\* C6 amended: a row whose Dividend Yield (likewise FCF Yield, Margin of
\* Safety) is unknown fails that clause for every configured minimum,
\* negative, zero or positive: it is never in the FilteredTable.
C6_UnknownFailsEveryMin ==
    FilterDone =>
        \A j \in 1..Len(df.data) :
            LET r == df.data[j]
            IN (r.DividendYieldPct = None \/ r.FCFYieldPct = None
                  \/ r.MarginOfSafety = None) =>
                 ~(\E m \in 1..Len(df_filtered.data) : df_filtered.data[m] = r)

\* C6 witness: with a negative minimum Dividend Yield, a row whose Dividend
\* Yield is unknown and which satisfies the five other clauses was dropped.
C6_Witness ==
    /\ FilterDone
    /\ thresholds.div_yield_min.n < 0
    /\ \E j \in 1..Len(df.data) :
         LET r == df.data[j]
         IN /\ r.DividendYieldPct = None
            /\ KnownLeq(r.PE, thresholds.pe_max)
            /\ KnownLeq(r.PB, thresholds.pb_max)
            /\ KnownLeq(r.DebtEquity, thresholds.de_max)
            /\ KnownGeq(r.FCFYieldPct, thresholds.fcf_yield_min)
            /\ KnownGeq(r.MarginOfSafety, thresholds.min_mos)
            /\ ~(\E m \in 1..Len(df_filtered.data) : df_filtered.data[m] = r)

\* The text holds nothing but commas and whitespace.
OnlySeparators(text) == \A j \in 1..Len(text) : text[j] \in {",", " "}

\* C9: the parsed list is empty exactly when the text holds only commas and
\* whitespace; a run over an empty list reports the error and does nothing
\* else (no fetch, no row, no table, no export); the error is reported only
\* for an empty list.
C9_EmptyListOnlyReportsError ==
    /\ (tickers = <<>>) <=> OnlySeparators(tickers_input)
    /\ error <=> (pc = "error")
    /\ error <=> (pc # "idle" /\ tickers = <<>>)
    /\ error =>
         /\ fetched = <<>> /\ rows = <<>> /\ DOMAIN cache = {}
         /\ ~df.built /\ ~df_filtered.built
         /\ exports = <<>>

\* C9 witness: the error was reported for a text of commas and blanks.
C9_Witness ==
    /\ error
    /\ Len(tickers_input) = 3
    /\ tickers_input[2] = "," /\ tickers_input[3] = " "

\* x < y on numbers.
Less(x, y) == x.n * y.d < y.n * x.d

\* C10: in a row with a known Margin of Safety and a positive Price, the
\* Margin of Safety is positive only if Graham Value exceeds Price; a row
\* whose Graham Value is below its Price is never in the FilteredTable when
\* the minimum Margin of Safety is zero or more.
C10_MosPositiveOnlyBelowGraham ==
    FilterDone =>
        \A j \in 1..Len(df.data) :
            LET r == df.data[j]
            IN (IsNum(r.MarginOfSafety) /\ IsNum(r.Price) /\ r.Price.n > 0) =>
                 /\ r.MarginOfSafety.n > 0 => Less(r.Price, r.GrahamValue)
                 /\ (Less(r.GrahamValue, r.Price) /\ thresholds.min_mos.n >= 0) =>
                      ~(\E m \in 1..Len(df_filtered.data) : df_filtered.data[m] = r)

====
